---- MODULE Spec2Model ----
(***************************************************************************)
(* Model of the VideoPlayer component (src/src/components/VideoPlayer.tsx). *)
(*                                                                         *)
(* The component runs on the single UI thread.  Every asynchronous call    *)
(* (destroyPlayer, initPlayer, initNewChannel) is a coroutine that runs    *)
(* until its next await.  A coroutine that awaits an operation of the      *)
(* streaming engine (destroy, configure, load) sits in `waiting` until the *)
(* engine settles the promise.  React events (mount, channel change,       *)
(* unmount), the script's load event, the user's clicks and the settling   *)
(* of an engine promise are tasks of the event loop.  Each is one action:  *)
(* the whole handler, effects included, followed by the microtasks it      *)
(* leaves behind, that is, the coroutine it resumed or started runs on     *)
(* through every await of an already settled promise until it awaits the   *)
(* engine or returns.  The engine settles one promise per task.            *)
(***************************************************************************)
EXTENDS Integers, Sequences, FiniteSets, Bags, TLC

\* ------------------------------------------------------------------ bounds
\* Number of channel changes (prop updates) explored after mount.
MaxChanges == 1

\* Mount aside, an event that starts a coroutine (channel change, unmount,
\* script load) arrives while fewer than this many engine promises are
\* pending.
MaxPending == 2

\* destroy() calls on one instance are counted up to this number.
MaxCount == 2

\* Longest DRM key string explored by SpecKey.
MaxKeyLen == 5

\* ------------------------------------------------------- program constants
\* <Slider max={100} step={1}>; volume is kept in hundredths (value[0] / 100).
SliderMax == 100
\* useState(1): the initial volume, in hundredths.
InitVolume == 100

\* ---------------------------------------------------------------- channels
\* A channel descriptor: playback url and optional drmKey ("keyId:key").
\* A string is a sequence of one-character strings; <<>> is the absent key.
ChanA == [url |-> "A", drmKey |-> <<>>]
ChanB == [url |-> "B", drmKey |-> <<"k", ":", "v">>]
ChanC == [url |-> "C", drmKey |-> <<"k", "v">>]
Channels == {ChanA, ChanB, ChanC}

\* The channel the parent selects when the user presses "next" in the
\* channel controls (onNext): the channel list is cyclic.
NextChannel(ch) ==
  IF ch = ChanA THEN ChanB ELSE IF ch = ChanB THEN ChanC ELSE ChanA

\* The JavaScript value undefined (distinct from every string).
Undefined == <<"undefined">>
NoUrl == ""

\* String.prototype.split(sep) for a one-character separator.
RECURSIVE Split(_, _)
Split(s, sep) ==
  IF \E i \in 1..Len(s) : s[i] = sep
  THEN LET i == CHOOSE k \in 1..Len(s) :
                  s[k] = sep /\ \A j \in 1..(k - 1) : s[j] # sep
       IN  <<SubSeq(s, 1, i - 1)>> \o Split(SubSeq(s, i + 1, Len(s)), sep)
  ELSE <<s>>

\* Array destructuring: element n of the array, undefined past its end.
Destructure(parts, n) == IF n <= Len(parts) THEN parts[n] ELSE Undefined

\* const [keyId, key] = channel.drmKey.split(':')
ParseDrmKey(drmKey) ==
  LET parts == Split(drmKey, ":")
  IN  <<Destructure(parts, 1), Destructure(parts, 2)>>

\* The DRM key strings explored by SpecKey: every string of at most
\* MaxKeyLen characters over a letter and the colon.
KeyAlphabet == {"a", ":"}
KeyStrings ==
  UNION {[1..n -> KeyAlphabet] : n \in 1..MaxKeyLen}
KeyChannels == {[url |-> "K", drmKey |-> k] : k \in KeyStrings}

VARIABLES
  phase,      \* "new" (rendered, effects not run), "mounted", "unmounted"
  channel,    \* the channel prop of the latest render
  chan0,      \* the channel of the first render (closure of script.onload)
  script,     \* the injected script tag: "none", "loading", "loaded"
  shaka,      \* window.shaka is defined
  supported,  \* shaka.Player.isBrowserSupported()
  ctorOk,     \* new shaka.Player(video) returns (FALSE: it throws)
  ref,        \* shakaPlayerRef.current: 0 (null) or an engine instance
  inst,       \* the engine instances constructed and not yet destroyed
  waiting,    \* bag of coroutines awaiting an engine promise
  errLog,     \* kinds of console.error lines written so far
  uncaught,   \* a coroutine ended with an exception nobody caught
  isPlaying,  \* useState(true)
  volume,     \* useState(1), in hundredths
  isMuted,    \* useState(false)
  videoVolume,\* videoRef.current.volume, in hundredths
  lastCmd,    \* last command sent to the video element: "none","play","pause"
  uiOp,       \* the control the user operated last, "none" before the first
  nChanges,   \* number of channel changes so far
  rapid       \* a channel change happened while an initialization was pending

vars == <<phase, channel, chan0, script, shaka, supported, ctorOk, ref, inst,
          waiting, errLog, uncaught, isPlaying, volume, isMuted, videoVolume,
          lastCmd, uiOp, nChanges, rapid>>

lifecycleVars == <<ref, inst, waiting, errLog, uncaught>>
uiVars == <<isPlaying, volume, isMuted, videoVolume, lastCmd, uiOp>>
envVars == <<phase, channel, chan0, script, shaka, supported, ctorOk, nChanges,
             rapid>>

\* videoRef.current is the <video> element exactly while mounted.
VideoRefSet == phase = "mounted"

\* ---------------------------------------------------------------- records
\* A coroutine: kind "effect" (initNewChannel), "cleanup" (the effect's
\* cleanup calling destroyPlayer) or "onload" (script.onload = initPlayer).
\* pc is the await it is suspended at:
\*   "D_await"  destroy() in destroyPlayer called by initNewChannel/cleanup,
\*   "I_await"  destroy() in destroyPlayer called by initPlayer,
\*   "C_await"  configure({drm}),   "L_await"  load(url);
\* tgt is the engine instance the awaited promise belongs to, 0 once that
\* instance is destroyed.
NewTask(kind, ch) == [kind |-> kind, ch |-> ch, pc |-> "start", tgt |-> 0]

\* new shaka.Player(videoRef.current)
\*   ch       the channel of the initPlayer call that constructed it
\*   attached the video element was passed to the constructor
\*   status   "live" or "destroying" (destroy() was called on it)
\*   dcalls   number of destroy() calls on it, counted up to MaxCount
\*   keys     <<keyId, key>> of the drm.clearKeys it was configured with
\*   cfgDone  that configure call has completed
\*   url      the url it was asked to load
NewInst(ch, attached) ==
  [ch |-> ch, attached |-> attached, status |-> "live", dcalls |-> 0,
   keys |-> <<>>, cfgDone |-> FALSE, url |-> NoUrl]

\* The instances that are constructed and not destroyed; a destroyed
\* instance leaves `inst`, and its identifier is free again.
Insts == DOMAIN inst

FreshId(ids) ==
  CHOOSE i \in 1..(Cardinality(ids) + 1) :
    i \notin ids /\ \A j \in 1..(i - 1) : j \in ids

\* The part of the state the coroutines act on; cmd is the command the
\* running action sends to the video element, exc the exception that is
\* propagating ("none": none).
Cur == [ref |-> ref, inst |-> inst, waiting |-> waiting, log |-> errLog,
        cmd |-> "none", exc |-> "none"]

\* An exception still propagating when the coroutines have run is caught by
\* nobody: its promise rejects unhandled.
Commit(st) ==
  /\ ref' = st.ref
  /\ inst' = st.inst
  /\ waiting' = st.waiting
  /\ errLog' = st.log
  /\ uncaught' = (uncaught \/ st.exc # "none")
  /\ IF st.cmd = "play"
     THEN lastCmd' = "play" /\ isPlaying' = TRUE
     ELSE UNCHANGED <<lastCmd, isPlaying>>

Await(st, t) == [st EXCEPT !.waiting = @ (+) SetToBag({t})]
LogError(st, kind) == [st EXCEPT !.log = @ \cup {kind}]

\* throw, or the rejection of an awaited promise.
Throw(st, what) == [st EXCEPT !.exc = what]

\* Mutant: the handler logs the exception and rethrows it.
Catch_Rethrow(st, kind) ==
  IF st.exc # "none" THEN LogError(st, kind) ELSE st

\* catch (error) { console.error(...) }: the handlers of destroyPlayer
\* (lines 38-40, kind "destroy"), of the load (lines 111-113, "load") and
\* of initPlayer as a whole (lines 114-116, "init").
Catch(st, kind) ==
  IF st.exc # "none"
  THEN LogError([st EXCEPT !.exc = "none"], kind)
  ELSE st

\* player.destroy(): the engine starts tearing the instance down.
EngineDestroy(st, i) ==
  [st EXCEPT !.inst[i].dcalls = IF @ < MaxCount THEN @ + 1 ELSE @,
             !.inst[i].status = IF @ = "live" THEN "destroying" ELSE @]

\* player.configure({drm: {clearKeys: {[keyId]: key}}}); a destroyed
\* instance keeps no configuration.
EngineConfigure(st, i, keys) ==
  IF i \in DOMAIN st.inst THEN [st EXCEPT !.inst[i].keys = keys] ELSE st

\* player.load(url); a destroyed instance loads nothing.
EngineLoad(st, i, url) ==
  IF i \in DOMAIN st.inst THEN [st EXCEPT !.inst[i].url = url] ELSE st

\* player.load(channel.url) is called and awaited (lines 103-105).
LoadCall(st, t, i) ==
  Await(EngineLoad(st, i, t.ch.url), [t EXCEPT !.pc = "L_await", !.tgt = i])

\* initPlayer after `await player.load(...)` (lines 106-113).
LoadResume(st, ok, hasVideo) ==
  IF ok
  THEN IF hasVideo THEN [st EXCEPT !.cmd = "play"] ELSE st
  ELSE Catch(Throw(st, "load"), "load")

\* initPlayer after `await player.configure({drm})`: it goes on to load, or
\* the rejection reaches the outer catch (lines 101-105, 114-116).
ConfigureResume(st, t, ok) ==
  IF ok THEN LoadCall(st, t, t.tgt) ELSE Catch(Throw(st, "configure"), "init")

\* Mutant: the DRM configuration is not awaited, load is called at once.
ConstructAndConfigure_LoadEarly(st, t, hasVideo) ==
  LET i == FreshId(DOMAIN st.inst)
      st1 == [st EXCEPT !.inst = (i :> NewInst(t.ch, hasVideo)) @@ @,
                        !.ref = i]
  IN  IF ~ctorOk
      THEN Catch(Throw(st, "constructor"), "init")
      ELSE IF t.ch.drmKey # <<>>
      THEN LoadCall(EngineConfigure(st1, i, ParseDrmKey(t.ch.drmKey)), t, i)
      ELSE LoadCall(st1, t, i)

\* initPlayer from the construction of the engine to the next await
\* (lines 58-105); a constructor that throws takes it to the outer catch
\* (lines 114-116).
ConstructAndConfigure(st, t, hasVideo) ==
  LET i == FreshId(DOMAIN st.inst)
      st1 == [st EXCEPT !.inst = (i :> NewInst(t.ch, hasVideo)) @@ @,
                        !.ref = i]
  IN  IF ~ctorOk
      THEN Catch(Throw(st, "constructor"), "init")
      ELSE IF t.ch.drmKey # <<>>
      THEN Await(EngineConfigure(st1, i, ParseDrmKey(t.ch.drmKey)),
                 [t EXCEPT !.pc = "C_await", !.tgt = i])
      ELSE LoadCall(st1, t, i)

\* destroyPlayer after `await shakaPlayerRef.current.destroy()`
\* (lines 37-40).
DestroyPlayerResume(st, ok) ==
  IF ok THEN [st EXCEPT !.ref = 0] ELSE Catch(Throw(st, "destroy"), "destroy")

\* `await destroyPlayer()` in initPlayer (line 56): with a session,
\* destroy() is called and awaited; without one destroyPlayer returns and
\* initPlayer goes on.
DestroyPlayerInInit(st, t, hasVideo) ==
  IF st.ref # 0
  THEN Await(EngineDestroy(st, st.ref),
             [t EXCEPT !.pc = "I_await", !.tgt = st.ref])
  ELSE ConstructAndConfigure(st, t, hasVideo)

\* initPlayer up to its first await (lines 44-56).
InitPlayer(st, t, hasVideo, hasShaka, isSupported) ==
  IF ~hasVideo \/ ~hasShaka
  THEN st
  ELSE IF ~isSupported
       THEN Catch(Throw(st, "unsupported"), "init")
       ELSE DestroyPlayerInInit(st, t, hasVideo)

\* What follows destroyPlayer() in its caller: nothing in the cleanup
\* (line 135), initPlayer in initNewChannel (lines 128-129).
AfterDestroyPlayer(st, t, hasVideo, hasShaka, isSupported) ==
  IF t.kind = "cleanup"
  THEN st
  ELSE InitPlayer(st, t, hasVideo, hasShaka, isSupported)

\* Mutant: destroyPlayer treats a missing session as an error.
DestroyPlayer_NullIsError(st, t, hasVideo, hasShaka, isSupported) ==
  IF st.ref # 0
  THEN Await(EngineDestroy(st, st.ref),
             [t EXCEPT !.pc = "D_await", !.tgt = st.ref])
  ELSE AfterDestroyPlayer(LogError(st, "destroy"), t, hasVideo, hasShaka,
                          isSupported)

\* destroyPlayer() called by the cleanup or by initNewChannel
\* (lines 33-36, 128, 135).
DestroyPlayer(st, t, hasVideo, hasShaka, isSupported) ==
  IF st.ref # 0
  THEN Await(EngineDestroy(st, st.ref),
             [t EXCEPT !.pc = "D_await", !.tgt = st.ref])
  ELSE AfterDestroyPlayer(st, t, hasVideo, hasShaka, isSupported)

\* Mutant: destroyPlayer rethrows a destroy failure, which ends
\* initNewChannel and takes initPlayer to its outer catch.
Resume_DestroyThrows(st, t, ok, hasVideo, hasShaka, isSupported) ==
  CASE t.pc = "D_await" ->
         IF ok
         THEN AfterDestroyPlayer(DestroyPlayerResume(st, ok), t, hasVideo,
                                 hasShaka, isSupported)
         ELSE DestroyPlayerResume(st, ok)
    [] t.pc = "I_await" ->
         IF ok
         THEN ConstructAndConfigure(DestroyPlayerResume(st, ok), t, hasVideo)
         ELSE LogError(DestroyPlayerResume(st, ok), "init")
    [] t.pc = "C_await" -> ConfigureResume(st, t, ok)
    [] t.pc = "L_await" -> LoadResume(st, ok, hasVideo)

\* The coroutine t resumes after the promise it awaited settled.
Resume(st, t, ok, hasVideo, hasShaka, isSupported) ==
  CASE t.pc = "D_await" ->
         AfterDestroyPlayer(DestroyPlayerResume(st, ok), t, hasVideo,
                            hasShaka, isSupported)
    [] t.pc = "I_await" ->
         ConstructAndConfigure(DestroyPlayerResume(st, ok), t, hasVideo)
    [] t.pc = "C_await" -> ConfigureResume(st, t, ok)
    [] t.pc = "L_await" -> LoadResume(st, ok, hasVideo)

\* The coroutines awaiting a promise of instance i now await a promise of
\* a destroyed instance.
Forget(B, i) ==
  LET f(x) == IF x.tgt = i THEN [x EXCEPT !.tgt = 0] ELSE x
      Count(y) == IF y \in DOMAIN B THEN B[y] ELSE 0
  IN  [y \in {f(x) : x \in DOMAIN B} |->
         IF y.tgt = 0 THEN Count(y) + Count([y EXCEPT !.tgt = i])
                      ELSE B[y]]

\* The engine's own state when it settles a promise: a destroy() that
\* resolves has torn the instance down, a configure() that resolves has
\* applied the configuration.
EngineSettled(st, t, ok) ==
  IF t.tgt \notin DOMAIN st.inst
  THEN st
  ELSE IF ok /\ t.pc \in {"D_await", "I_await"}
       THEN [st EXCEPT
               !.inst = [i \in DOMAIN st.inst \ {t.tgt} |-> st.inst[i]],
               !.waiting = Forget(st.waiting, t.tgt)]
       ELSE IF ok /\ t.pc = "C_await"
            THEN [st EXCEPT !.inst[t.tgt].cfgDone = TRUE]
            ELSE st

\* ------------------------------------------------------------------- init
Init ==
  /\ phase = "new"
  /\ channel \in Channels
  /\ chan0 = channel
  /\ script = "none"
  /\ shaka \in BOOLEAN
  /\ supported \in BOOLEAN
  /\ ctorOk \in BOOLEAN
  /\ ref = 0
  /\ inst = <<>>
  /\ waiting = EmptyBag
  /\ errLog = {}
  /\ uncaught = FALSE
  /\ isPlaying = TRUE
  /\ volume = InitVolume
  /\ isMuted = FALSE
  /\ videoVolume = InitVolume
  /\ lastCmd = "none"
  /\ uiOp = "none"
  /\ nChanges = 0
  /\ rapid = FALSE

\* Mutant: the volume effect sets the element's volume only.
VolumeEffect_NoSetMuted(v, m) ==
  /\ videoVolume' = v
  /\ isMuted' = m

\* useEffect(..., [volume]) (lines 119-124), run after a render that
\* committed volume v and muted flag m.
VolumeEffect(v, m) ==
  /\ videoVolume' = v
  /\ isMuted' = (v = 0)

\* ---------------------------------------------------------------- actions
\* First commit: the three effects run in order (lines 21-31, 119-124,
\* 126-137).
Mount ==
  /\ phase = "new"
  /\ phase' = "mounted"
  /\ script' = "loading"
  /\ VolumeEffect(volume, isMuted)
  /\ Commit(DestroyPlayer(Cur, NewTask("effect", channel), TRUE, shaka,
                          supported))
  /\ UNCHANGED <<channel, chan0, shaka, supported, ctorOk, volume, uiOp,
                 nChanges, rapid>>

\* The parent passes another channel: the previous effect's cleanup runs
\* destroyPlayer(), then the effect runs initNewChannel() (lines 126-137).
ChannelChange(c) ==
  /\ phase = "mounted"
  /\ BagCardinality(waiting) < MaxPending
  /\ nChanges < MaxChanges
  /\ c = NextChannel(channel)
  /\ channel' = c
  /\ nChanges' = nChanges + 1
  /\ rapid' = (rapid \/ \E t \in BagToSet(waiting) : t.kind # "cleanup")
  /\ LET st1 == DestroyPlayer(Cur, NewTask("cleanup", channel), TRUE, shaka,
                              supported)
     IN  Commit(DestroyPlayer(st1, NewTask("effect", c), TRUE, shaka,
                              supported))
  /\ UNCHANGED <<phase, chan0, script, shaka, supported, ctorOk>>
  /\ UNCHANGED <<volume, isMuted, videoVolume, uiOp>>

\* The component unmounts: React clears videoRef, the script tag is removed
\* and the channel effect's cleanup calls destroyPlayer() (lines 28-30,
\* 134-136).
Unmount ==
  /\ phase = "mounted"
  /\ BagCardinality(waiting) < MaxPending
  /\ phase' = "unmounted"
  /\ Commit(DestroyPlayer(Cur, NewTask("cleanup", channel), FALSE, shaka,
                          supported))
  /\ UNCHANGED <<channel, chan0, script, shaka, supported, ctorOk, nChanges,
                 rapid>>
  /\ UNCHANGED <<volume, isMuted, videoVolume, uiOp>>

\* The injected script has loaded: window.shaka is defined and the handler
\* set at mount, the first render's initPlayer, is called (line 25).
ScriptOnload ==
  /\ script = "loading"
  /\ BagCardinality(waiting) < MaxPending
  /\ script' = "loaded"
  /\ shaka' = TRUE
  /\ Commit(InitPlayer(Cur, NewTask("onload", chan0), VideoRefSet, TRUE,
                       supported))
  /\ UNCHANGED <<phase, channel, chan0, supported, ctorOk, nChanges, rapid>>
  /\ UNCHANGED <<volume, isMuted, videoVolume, uiOp>>

\* The engine settles the promise the coroutine t awaits, and t resumes.
\* A load() resolves only on an instance no destroy() was called on.
EngineSettle(t, ok) ==
  /\ BagIn(t, waiting)
  /\ (t.pc = "L_await" /\ ok) =>
       (t.tgt \in DOMAIN inst /\ inst[t.tgt].status = "live")
  /\ Commit(Resume(EngineSettled([Cur EXCEPT !.waiting = @ (-) SetToBag({t})],
                                 t, ok),
                   t, ok, VideoRefSet, shaka, supported))
  /\ UNCHANGED <<volume, isMuted, videoVolume, uiOp>>
  /\ UNCHANGED envVars

\* Mutant: togglePlay always sends play().
TogglePlay_AlwaysPlay ==
  /\ phase = "mounted"
  /\ lastCmd' = "play"
  /\ isPlaying' = ~isPlaying
  /\ uiOp' = "togglePlay"
  /\ UNCHANGED <<volume, isMuted, videoVolume>>
  /\ UNCHANGED lifecycleVars
  /\ UNCHANGED envVars

\* togglePlay (lines 139-147).
TogglePlay ==
  /\ phase = "mounted"
  /\ lastCmd' = IF isPlaying THEN "pause" ELSE "play"
  /\ isPlaying' = ~isPlaying
  /\ uiOp' = "togglePlay"
  /\ UNCHANGED <<volume, isMuted, videoVolume>>
  /\ UNCHANGED lifecycleVars
  /\ UNCHANGED envVars

\* Mutant: toggleMute flips the flag and leaves the volume alone.
ToggleMute_FlagOnly ==
  /\ phase = "mounted"
  /\ volume' = volume
  /\ videoVolume' = videoVolume
  /\ isMuted' = ~isMuted
  /\ uiOp' = "toggleMute"
  /\ UNCHANGED <<isPlaying, lastCmd>>
  /\ UNCHANGED lifecycleVars
  /\ UNCHANGED envVars

\* toggleMute (lines 149-159): setVolume and setIsMuted are committed by
\* one render, and the volume effect follows when the volume changed.
ToggleMute ==
  /\ phase = "mounted"
  /\ LET v == IF isMuted THEN SliderMax ELSE 0
     IN  /\ volume' = v
         /\ IF v # volume
            THEN VolumeEffect(v, ~isMuted)
            ELSE videoVolume' = v /\ isMuted' = ~isMuted
  /\ uiOp' = "toggleMute"
  /\ UNCHANGED <<isPlaying, lastCmd>>
  /\ UNCHANGED lifecycleVars
  /\ UNCHANGED envVars

\* The slider's onValueChange: setVolume(value[0] / 100) (line 201); the
\* volume effect follows when the volume changed.
SetVolume(v) ==
  /\ phase = "mounted"
  /\ volume' = v
  /\ IF v # volume
     THEN VolumeEffect(v, isMuted)
     ELSE UNCHANGED <<videoVolume, isMuted>>
  /\ uiOp' = "setVolume"
  /\ UNCHANGED <<isPlaying, lastCmd>>
  /\ UNCHANGED lifecycleVars
  /\ UNCHANGED envVars

Settle == \E t \in BagToSet(waiting) : \E ok \in BOOLEAN : EngineSettle(t, ok)

Next ==
  \/ Mount
  \/ \E c \in Channels : ChannelChange(c)
  \/ Unmount
  \/ ScriptOnload
  \/ Settle

Spec == Init /\ [][Next]_vars

\* The play/pause button of a mounted player whose loads complete: the
\* load started at mount and the one started by the script's load event.
NextPlay ==
  \/ Mount
  \/ ScriptOnload
  \/ Settle
  \/ TogglePlay

SpecPlay == Init /\ [][NextPlay]_vars

\* The player mounted on a channel with an arbitrary DRM key string.
InitKey ==
  /\ phase = "new"
  /\ channel \in KeyChannels
  /\ chan0 = channel
  /\ script = "none"
  /\ shaka \in BOOLEAN
  /\ supported \in BOOLEAN
  /\ ctorOk \in BOOLEAN
  /\ ref = 0
  /\ inst = <<>>
  /\ waiting = EmptyBag
  /\ errLog = {}
  /\ uncaught = FALSE
  /\ isPlaying = TRUE
  /\ volume = InitVolume
  /\ isMuted = FALSE
  /\ videoVolume = InitVolume
  /\ lastCmd = "none"
  /\ uiOp = "none"
  /\ nChanges = 0
  /\ rapid = FALSE

NextKey ==
  \/ Mount
  \/ Unmount
  \/ ScriptOnload
  \/ Settle

SpecKey == InitKey /\ [][NextKey]_vars

\* The controls of a mounted player, every slider position included.
NextUI ==
  \/ Mount
  \/ Settle
  \/ TogglePlay
  \/ ToggleMute
  \/ \E v \in 0..SliderMax : SetVolume(v)

SpecUI == Init /\ [][NextUI]_vars

\* ------------------------------------------------------------ properties
\* No coroutine is suspended: every asynchronous operation has settled.
Quiescent == waiting = EmptyBag

\* The instances bound to the video element: constructed on it and not
\* destroyed.
Bound == {i \in Insts : inst[i].attached}

\* Nothing has failed so far: no console.error line was written.
NoFailure == errLog = {}

\* Every channel played so far has no DRM key or one of the form keyId:key.
WellKeyed ==
  \A c \in {chan0, channel} :
     Cardinality({k \in 1..Len(c.drmKey) : c.drmKey[k] = ":"}) =
        (IF c.drmKey = <<>> THEN 0 ELSE 1)

\* C1: at most one engine instance that is constructed and not yet
\* destroyed is bound to the video surface; stated for the runs in which
\* no engine operation has failed, so that no destroy() was left undone,
\* and every channel's key is well formed.
C1_AtMostOneLive == (NoFailure /\ WellKeyed) => Cardinality(Bound) <= 1

\* C2: after a channel change that came before the previous channel's
\* initialization had resolved, once everything has settled the only live
\* instance is the one in the session reference and it is the one
\* initialized for the selected channel; stated for the runs in which no
\* engine operation has failed and every channel's key is well formed.
C2_FinalSessionIsLatest ==
  (rapid /\ phase = "mounted" /\ Quiescent /\ NoFailure /\ WellKeyed) =>
     \A i \in Insts :
        i = ref /\ inst[i].ch = channel /\ inst[i].url \in {NoUrl, channel.url}

\* C3: a channel change invokes destroy() exactly once on the old
\* instance.
C3_OneDestroyPerChange ==
  [][(nChanges' = nChanges + 1 /\ ref # 0) =>
        (ref \in DOMAIN inst' /\ inst'[ref].dcalls = inst[ref].dcalls + 1)]_vars

\* A key string of the form keyId:key has exactly one colon.
OneColon(s) == Cardinality({k \in 1..Len(s) : s[k] = ":"}) = 1
NoColon(s) == \A k \in 1..Len(s) : s[k] # ":"

\* C4: an instance initialized for a channel with DRM key keyId:key is
\* configured with clearKeys {keyId: key}, load is not called on it before
\* that configure call has completed, and load is called with the
\* channel's url.
C4_ConfigureBeforeLoad ==
  \A i \in Insts :
    LET r == inst[i]
    IN  /\ r.url # NoUrl => r.url = r.ch.url
        /\ OneColon(r.ch.drmKey) =>
              /\ r.keys # <<>>
              /\ r.ch.drmKey = r.keys[1] \o <<":">> \o r.keys[2]
              /\ r.url # NoUrl => r.cfgDone

C4_Witness ==
  \E i \in Insts :
    inst[i].ch = ChanB /\ inst[i].cfgDone /\ inst[i].url = ChanB.url

\* C5: for a DRM key string without a colon the initialization logs an
\* error and the engine gets no clearKeys entry with an empty or undefined
\* key.
C5_MalformedKeyReported ==
  \A i \in Insts :
    (inst[i].ch.drmKey # <<>> /\ NoColon(inst[i].ch.drmKey)) =>
       /\ "init" \in errLog
       /\ inst[i].keys = <<>> \/ inst[i].keys[2] \notin {<<>>, Undefined}

\* C6: when destroyPlayer has completed on an existing session the session
\* reference is null, whether destroy() resolved or threw, and a failure
\* is logged.  Checked on the cleanup's destroyPlayer call, which nothing
\* follows.
C6_RefClearedAfterDestroy ==
  [][\A t \in BagToSet(waiting) : \A ok \in BOOLEAN :
       (t.kind = "cleanup" /\ EngineSettle(t, ok)) =>
          (ref' = 0 /\ (~ok => "destroy" \in errLog'))]_vars

\* C7: a destroy() that throws does not block the initialization: when the
\* destroy awaited by initPlayer fails, initPlayer constructs a new
\* instance for its channel, stores it in the session reference and calls
\* configure (DRM channel) or load with the channel's url on it; when the
\* destroy awaited by initNewChannel fails, initPlayer still runs.
C7_FailedDestroyDoesNotBlock ==
  [][\A t \in BagToSet(waiting) :
       /\ (t.pc = "I_await" /\ EngineSettle(t, FALSE) /\ ctorOk) =>
            /\ ref' \in DOMAIN inst' \ DOMAIN inst
            /\ inst'[ref'].ch = t.ch
            /\ inst'[ref'].status = "live"
            /\ \E u \in BagToSet(waiting') :
                  /\ u.tgt = ref' /\ u.ch = t.ch /\ u.kind = t.kind
                  /\ IF t.ch.drmKey = <<>>
                     THEN u.pc = "L_await" /\ inst'[ref'].url = t.ch.url
                     ELSE u.pc = "C_await" /\ inst'[ref'].keys # <<>>
       /\ (t.pc = "D_await" /\ t.kind = "effect" /\ EngineSettle(t, FALSE)
             /\ VideoRefSet /\ shaka /\ supported) =>
            \E u \in BagToSet(waiting') :
               /\ u.kind = "effect" /\ u.ch = t.ch
               /\ u.pc \in {"I_await", "C_await", "L_await"}
               /\ ~BagIn(u, waiting)]_vars

\* No channel change yet, so only the initPlayer of script.onload has called
\* destroy(); it failed, and a fresh instance is in the session reference.
C7_Witness ==
  /\ nChanges = 0 /\ phase = "mounted" /\ "destroy" \in errLog
  /\ ref \in Insts /\ inst[ref].dcalls = 0
  /\ \E i \in Insts \ {ref} : inst[i].dcalls >= 1

\* C8: destroyPlayer without a session is a no-op.  An unmount that finds
\* the session reference null changes nothing but the phase; a mount,
\* channel change or script load that finds it null calls destroy() on no
\* instance and logs nothing about a destroy.
C8_DestroyWithoutSessionIsNoop ==
  [][ref = 0 =>
       /\ (phase = "mounted" /\ phase' = "unmounted") =>
             /\ ref' = 0 /\ inst' = inst /\ waiting' = waiting
             /\ errLog' = errLog
             /\ UNCHANGED <<isPlaying, volume, isMuted, videoVolume>>
       /\ (phase' # phase \/ nChanges' # nChanges \/ script' # script) =>
             /\ \A i \in DOMAIN inst : i \in DOMAIN inst' /\ inst'[i] = inst[i]
             /\ "destroy" \in errLog' => "destroy" \in errLog
             /\ UNCHANGED <<volume, isMuted>>]_vars

\* Unmounted before the engine library was present: no instance was ever
\* constructed, the cleanup's destroyPlayer found no session.
C8_Witness ==
  phase = "unmounted" /\ ~shaka /\ ref = 0 /\ Insts = {} /\ Quiescent

\* C9: the muted flag is true exactly when the volume is 0, and the video
\* element has the volume of the state.
C9_MutedIffZero == (isMuted <=> volume = 0) /\ videoVolume = volume

C9_Witness == uiOp = "setVolume" /\ volume = 0 /\ isMuted

\* C10: toggling mute while muted gives volume 1 and muted = false,
\* whatever the volume was before; while not muted it gives volume 0 and
\* muted = true.
C10_ToggleMute ==
  [][ToggleMute =>
       IF isMuted
       THEN volume' = SliderMax /\ ~isMuted'
       ELSE volume' = 0 /\ isMuted']_vars

C10_Witness ==
  uiOp = "toggleMute" /\ ~isMuted /\ volume = SliderMax

\* The console.error line a rejected engine promise leads to.
FailKind(pc) ==
  IF pc = "L_await" THEN "load" ELSE IF pc = "C_await" THEN "init" ELSE "destroy"

\* An event that starts a coroutine: mount, channel change, unmount or the
\* script's load event.
StartsCoroutine ==
  phase' # phase \/ nChanges' # nChanges \/ script' # script

\* C11: no failure escapes as an exception or a rejected promise.  No
\* coroutine ever ends with an uncaught exception; when destroy, configure
\* or load rejects, the failure is logged and the step sends no play
\* command and does not set the playing flag, and after a configure or
\* load rejection the initialization ends without calling the engine
\* again; when the browser is unsupported or the constructor throws,
\* initPlayer logs the failure, ends at once, leaves no instance and sends
\* no play command.
C11_NoFailureEscapes ==
  [][/\ ~uncaught'
     /\ \A t \in BagToSet(waiting) :
          EngineSettle(t, FALSE) =>
             /\ FailKind(t.pc) \in errLog'
             /\ UNCHANGED <<lastCmd, isPlaying>>
             /\ t.pc \in {"C_await", "L_await"} =>
                   /\ waiting' = waiting (-) SetToBag({t})
                   /\ inst' = inst
     /\ (StartsCoroutine /\ VideoRefSet' /\ shaka' /\ ~(supported /\ ctorOk)) =>
          /\ "init" \in errLog'
          /\ waiting' = EmptyBag /\ Insts' = {} /\ ref' = 0
          /\ UNCHANGED <<lastCmd, isPlaying>>]_vars

\* Destroy, configure and load have each failed once, everything has
\* settled and no play command was ever sent.
C11_Witness ==
  /\ {"destroy", "init", "load"} \subseteq errLog
  /\ ~uncaught /\ Quiescent /\ lastCmd = "none"

\* The browser is unsupported, or the constructor throws: initPlayer has
\* logged the failure.
C11_WitnessEnv ==
  /\ phase = "mounted" /\ shaka /\ ~(supported /\ ctorOk)
  /\ "init" \in errLog /\ ~uncaught

\* C12: after unmount no new engine instance is constructed, and once
\* every pending operation has settled every instance that was constructed
\* has had destroy() called on it; stated for the runs in which no engine
\* operation has failed and every channel's key is well formed.
C12_NoInstanceAfterUnmount ==
  [][/\ (phase = "unmounted" /\ NoFailure' /\ WellKeyed') =>
          \A i \in DOMAIN inst' :
             inst'[i].dcalls = 0 => (i \in DOMAIN inst /\ inst[i].dcalls = 0)
     /\ (phase' = "unmounted" /\ Quiescent' /\ NoFailure' /\ WellKeyed') =>
          \A i \in DOMAIN inst' : inst'[i].dcalls > 0]_vars

\* This step calls load() on an instance: an instance that no destroy()
\* was called on has a url it was asked to load, and did not before.
LoadCalled ==
  \E i \in DOMAIN inst' :
     /\ inst'[i].url # NoUrl /\ inst'[i].dcalls = 0
     /\ ~(i \in DOMAIN inst /\ inst[i].url # NoUrl /\ inst[i].dcalls = 0)

\* C13: no retry.  After a load has been rejected, load is not called
\* again, on any instance, before the next channel change; checked from
\* the mount to the first channel change, for the runs in which nothing
\* but loads has failed.
C13_NoRetry ==
  [][("load" \in errLog /\ errLog' = {"load"} /\ nChanges' = 0) =>
        ~LoadCalled]_vars

\* C14: when the engine library is not present or the browser is
\* unsupported, the initialization run at mount (and any later one) has
\* constructed no instance, has called neither configure nor load, has
\* left the session reference null and has logged the failure.
C14_EnvFailureLogged ==
  (phase = "mounted" /\ (~shaka \/ ~supported)) =>
     /\ Insts = {} /\ ref = 0 /\ Quiescent
     /\ "init" \in errLog

\* C15: the playing flag is true only after a load has succeeded for the
\* current session: the session reference holds an instance whose load
\* has resolved and play() was sent to the video element.
C15_PlayingOnlyAfterLoad ==
  (phase = "mounted" /\ isPlaying) =>
     /\ ref \in Insts /\ inst[ref].url # NoUrl
     /\ ~\E t \in BagToSet(waiting) : t.pc = "L_await" /\ t.tgt = ref
     /\ lastCmd = "play"

\* The text of s before and after its first colon.
FirstColon(s) ==
  CHOOSE k \in 1..Len(s) : s[k] = ":" /\ \A j \in 1..(k - 1) : s[j] # ":"
BeforeColon(s) == SubSeq(s, 1, FirstColon(s) - 1)
AfterColon(s) == SubSeq(s, FirstColon(s) + 1, Len(s))

\* C16: for a DRM key string with at least one colon, the instance is
\* configured with the text before the first colon as keyId and all of
\* the text after the first colon as key.
C16_SplitAtFirstColon ==
  \A i \in Insts :
    LET s == inst[i].ch.drmKey
    IN  (\E k \in 1..Len(s) : s[k] = ":") =>
           inst[i].keys = <<BeforeColon(s), AfterColon(s)>>

\* C17: a destroyPlayer call that resumes after destroy() resolved leaves
\* the session reference alone when it no longer holds the instance that
\* call destroyed (checked on the cleanup's call, which nothing follows),
\* so every instance no destroy() was called on is the one in the session
\* reference; stated for the runs in which no engine operation has failed
\* and every channel's key is well formed.
C17_NoStaleClear ==
  [][(NoFailure' /\ WellKeyed') =>
       /\ \A t \in BagToSet(waiting) :
            (t.kind = "cleanup" /\ EngineSettle(t, TRUE) /\ ref # t.tgt) =>
               ref' = ref
       /\ \A i \in DOMAIN inst' : inst'[i].dcalls = 0 => i = ref']_vars

\* C18: the initialization started by the script's load event works on
\* the channel selected when the event fires.  When the channel has
\* changed since the mount, that initialization calls destroy() on no
\* instance of the selected channel, its coroutine carries the selected
\* channel, and an instance it constructs at once is asked to load the
\* selected channel's url; stated for the runs in which no engine
\* operation has failed and every channel's key is well formed.
C18_OnloadUsesCurrentChannel ==
  [][(script = "loading" /\ script' = "loaded" /\ channel # chan0
        /\ NoFailure' /\ WellKeyed') =>
       /\ \A i \in DOMAIN inst :
            inst[i].ch = channel =>
               (i \in DOMAIN inst' /\ inst'[i].dcalls = inst[i].dcalls)
       /\ \A u \in BagToSet(waiting') : u.kind = "onload" => u.ch = channel
       /\ \A i \in DOMAIN inst' \ DOMAIN inst :
            inst'[i].url \in {NoUrl, channel.url}]_vars

\* C19: the playing flag agrees with the last command sent to the video
\* element: when the flag is false the last command was pause(), when the
\* last command was play() the flag is true; togglePlay sends pause() when
\* the flag was true and play() when it was false, and it inverts the
\* flag, so that two consecutive toggles restore it.
C19_FlagAgreesWithCommand ==
  [][/\ ~isPlaying' => lastCmd' = "pause"
     /\ lastCmd' = "play" => isPlaying'
     /\ TogglePlay =>
          /\ lastCmd' = (IF isPlaying THEN "pause" ELSE "play")
          /\ isPlaying' = ~isPlaying]_vars

\* The user paused while the channel was loading, then the load completed
\* and started playback.
C19_Witness ==
  /\ uiOp = "togglePlay" /\ isPlaying /\ lastCmd = "play"
  /\ Quiescent /\ NoFailure /\ script = "loading"
  /\ ref \in Insts /\ inst[ref].url # NoUrl

====
